---- MODULE Spec2Model ----
(***************************************************************************)
(* talogo: task time logger.                                               *)
(*   - cmd/log.go      logToCSV: day split, header/padding, buffered       *)
(*                     csv.Writer, file.Sync                               *)
(*   - cmd/summary.go  generateSummary: row parsing and the per-day        *)
(*                     TaskNode forest (src/unnamed/part_002:132-307)      *)
(*                                                                         *)
(* Time is counted in nanoseconds (time.Time instants, time.Duration).     *)
(* The number of nanoseconds per second and of seconds per day are scaled  *)
(* down so that the state space is finite; a location is a fixed offset    *)
(* from UTC, in seconds.                                                   *)
(***************************************************************************)
EXTENDS Integers, Sequences, FiniteSets, TLC

VARIABLES
    file,          \* the log file: the sequence of CSV records it holds
    synced,        \* the records the file held when file.Sync last ran
    ret,           \* what the last logToCSV returned ("nil" or an error), "none" before
    written,       \* history: the sessions appended, in order
    startTime,     \* model.startTime
    elapsed,       \* model.elapsed
    loc,           \* startTime.Location(), an offset in seconds
    currentStart,  \* logToCSV's loop variable
    segs,          \* the (currentStart, currentEnd) pairs the loop has emitted
    pc,            \* position of the day-split loop: "loop" | "done" | "idle"
    dailyTasks,    \* generateSummary's forest
    parsed,        \* generateSummary's outcome for every data row
    report,        \* generateSummary's standard output, line by line
    diags,         \* generateSummary's standard error, line by line
    mTitles,       \* model.titles (m.titles)
    running,       \* model.running
    quitting,      \* model.quitting
    cmd,           \* the tea.Cmd the last Update returned: "tick" | "quit" | "nil"
    tickPending,   \* a tickMsg is on its way (tickCmd was returned)
    now,           \* the clock, time.Now()
    tickDue,       \* when the pending tickMsg is delivered
    msg,           \* the message the last step handed to Update, "none" if it was no Update
    ticked         \* history: time.Since(startTime) at the last tick handled while running

\* the interactive session (model, and bubbletea's pending messages)
uiVars == <<mTitles, running, quitting, cmd, tickPending, now, tickDue, msg, ticked>>

vars == <<file, synced, ret, written, startTime, elapsed, loc,
          currentStart, segs, pc, dailyTasks, parsed, report, diags,
          mTitles, running, quitting, cmd, tickPending, now, tickDue, msg,
          ticked>>

----------------------------------------------------------------------------
(* Bounds and scaled units *)

\* nanoseconds in one second (time.Second / time.Nanosecond), scaled down
NanosPerSecond == 2
\* seconds in one calendar day, scaled down
SecondsPerDay == 3
\* the largest start instant of a session, in days after the epoch
MaxStartDays == 2
\* the longest elapsed time of a session, in days
MaxElapsedDays == 2
\* location offsets range over -MaxOffset..MaxOffset seconds
MaxOffset == 1

DayNanos == SecondsPerDay * NanosPerSecond
Offsets == (0 - MaxOffset)..MaxOffset
StartTimes == 0..(MaxStartDays * DayNanos - 1)
Elapsed == 0..(MaxElapsedDays * DayNanos + 1)

----------------------------------------------------------------------------
(* time.Time *)

\* t.Date(): the calendar day of instant t in a location off seconds east of UTC
LocalDate(t, off) == (t + off * NanosPerSecond) \div DayNanos

\* time.Date(year, month, day, 0, 0, 0, 0, loc): local midnight of calendar day d
Midnight(d, off) == d * DayNanos - off * NanosPerSecond

\* t.Format(time.RFC3339): whole seconds and the offset; the fraction is dropped
FormatRFC3339(t, off) == [sec |-> t \div NanosPerSecond, off |-> off]

\* time.Parse(time.RFC3339, s): the instant a formatted timestamp denotes
ParseRFC3339(s) == s.sec * NanosPerSecond

----------------------------------------------------------------------------
(* logToCSV: the day-split loop, log.go:158-191 *)

\* year, month, day := currentStart.Date()
\* nextDay := time.Date(year, month, day+1, 0, 0, 0, 0, currentStart.Location())
nextDay(cs, off) == Midnight(LocalDate(cs, off) + 1, off)

\* endOfDay without the Add(-time.Nanosecond)
endOfDayIsNextDay(cs, off) == nextDay(cs, off)

\* endOfDay := nextDay.Add(-time.Nanosecond)
endOfDay(cs, off) == nextDay(cs, off) - 1

\* currentEnd without the test against endTime
currentEndIsEndOfDay(cs, endTime, off) == endOfDay(cs, off)

\* currentEnd := endOfDay; if endOfDay.After(endTime) { currentEnd = endTime }
currentEnd(cs, endTime, off) ==
    IF endOfDay(cs, off) > endTime THEN endTime ELSE endOfDay(cs, off)

\* if currentEnd.Equal(endTime) { break }
LoopBreaksWhenNotAfter(cs, endTime, off) == currentEnd(cs, endTime, off) <= endTime

LoopBreaks(cs, endTime, off) == currentEnd(cs, endTime, off) = endTime

\* the next start one second, not one nanosecond, after endOfDay
NextStartAddsSecond(cs, off) == endOfDay(cs, off) + NanosPerSecond

\* currentStart = endOfDay.Add(time.Nanosecond)
NextStart(cs, off) == endOfDay(cs, off) + 1

\* the segment one iteration emits
Segment(cs, endTime, off) == [start |-> cs, end |-> currentEnd(cs, endTime, off)]

\* the whole loop: the segments emitted from currentStart on
RECURSIVE Segments(_, _, _)
Segments(cs, endTime, off) ==
    IF LoopBreaks(cs, endTime, off)
    THEN <<Segment(cs, endTime, off)>>
    ELSE <<Segment(cs, endTime, off)>> \o Segments(NextStart(cs, off), endTime, off)

----------------------------------------------------------------------------
(* CSV records.  A field is a string; the model keeps, for a timestamp     *)
(* string, the second and the offset it spells.  encoding/csv writes and   *)
(* reads back every field of the vocabulary below unchanged, so the file   *)
(* is kept as the sequence of its records.                                 *)

TextField(s) == [kind |-> "text", text |-> s, sec |-> 0, off |-> 0]

TimeField(t, off) ==
    [kind |-> "time", text |-> "", sec |-> FormatRFC3339(t, off).sec,
     off |-> FormatRFC3339(t, off).off]

\* fmt.Sprintf("title%d", i)
TitleNames == <<"title1", "title2", "title3", "title4", "title5", "title6">>

\* the root task names of a session; "2" also reads as an integer
Titles == {"A", "2"}
\* the longest title chain of a session
MaxChain == 2
\* TITLE {SUBTITLES}: a root task, then subtasks "B"
Chains ==
    {<<r>> \o [i \in 1..n |-> "B"] : r \in Titles, n \in 0..(MaxChain - 1)}

----------------------------------------------------------------------------
(* logToCSV, log.go:105-199 *)

\* titleCount := len(headers) - 2
titleCount(headers) == Len(headers) - 2

\* maxTitles := len(m.titles); if fileInfo.Size() > 0 { ... if titleCount > maxTitles ... }
maxTitles(f, titles) ==
    IF Len(f) > 0 /\ titleCount(f[1]) > Len(titles)
    THEN titleCount(f[1])
    ELSE Len(titles)

\* header := []string{"start_time", "end_time"}; ... append(header, "title%d")
Header(n) ==
    <<TextField("start_time"), TextField("end_time")>>
        \o [i \in 1..n |-> TextField(TitleNames[i])]

\* for len(record) < 2+maxTitles { record = append(record, "") }
Pad(record, width) ==
    record \o [i \in 1..(IF Len(record) < width THEN width - Len(record) ELSE 0)
                  |-> TextField("")]

\* record := []string{currentStart.Format(RFC3339), currentEnd.Format(RFC3339)}
\* record = append(record, m.titles...), then the padding
Record(seg, titles, n, off) ==
    Pad(<<TimeField(seg.start, off), TimeField(seg.end, off)>>
            \o [i \in 1..Len(titles) |-> TextField(titles[i])],
        2 + n)

HeaderRowsAlways(f, titles) == <<Header(maxTitles(f, titles))>>

\* if fileInfo.Size() == 0 { writer.Write(header) }
HeaderRows(f, titles) ==
    IF Len(f) = 0 THEN <<Header(maxTitles(f, titles))>> ELSE <<>>

\* every record one call hands to writer.Write, in order
RowsOfCall(f, titles, start, el, off) ==
    LET sg == Segments(start, start + el, off)
    IN  HeaderRows(f, titles)
            \o [i \in 1..Len(sg) |-> Record(sg[i], titles, maxTitles(f, titles), off)]

\* the file opened with O_TRUNC in place of O_APPEND
OpenFileTruncating(f) == <<>>

\* os.OpenFile(m.logFile, os.O_APPEND|os.O_CREATE|os.O_WRONLY, 0644): the content
\* the file has once it is open
OpenFile(f) == f

\* the records a csv.Writer (a bufio.Writer) holds before it writes them through,
\* scaled down from bufio's 4096 bytes
BufRows == 2

\* writer.Write: of n records written, those bufio has already passed on to the
\* file (it empties its buffer when the next record does not fit)
PassedOn(n) == IF n = 0 THEN 0 ELSE BufRows * ((n - 1) \div BufRows)

\* what can go wrong in one call: nothing, os.OpenFile fails, every write to
\* the file fails, file.Sync fails
Faults == {"none", "open", "write", "sync"}

\* one call of logToCSV on file f: the file afterwards (the deferred
\* writer.Flush and file.Close have run), whether file.Sync succeeded, the
\* content of the file when it ran, and the error returned
logToCSV(f, titles, start, el, off, fault) ==
    LET f0  == OpenFile(f)
        out == RowsOfCall(f0, titles, start, el, off)
        early == PassedOn(Len(out))
    IN  IF fault = "open"
        THEN [file |-> f, didSync |-> FALSE, atSync |-> <<>>, rows |-> 0,
              ret |-> "failed to open/create CSV file"]
        ELSE IF fault = "write"
        THEN IF early > 0
             THEN \* writer.Write hands back bufio's error
                  [file |-> f0, didSync |-> FALSE, atSync |-> <<>>, rows |-> 0,
                   ret |-> "failed to write CSV record"]
             ELSE \* file.Sync succeeds; the deferred Flush fails, its error is dropped
                  [file |-> f0, didSync |-> TRUE, atSync |-> f0, rows |-> 0,
                   ret |-> "nil"]
        ELSE IF fault = "sync"
        THEN \* the deferred Flush still writes the buffered records
             [file |-> f0 \o out, didSync |-> FALSE, atSync |-> <<>>,
              rows |-> Len(out), ret |-> "failed to sync file"]
        ELSE [file |-> f0 \o out, didSync |-> TRUE,
              atSync |-> f0 \o SubSeq(out, 1, early), rows |-> Len(out),
              ret |-> "nil"]

----------------------------------------------------------------------------
(* generateSummary, part_002:176-254 *)

\* strconv.Atoi on the strings of the vocabulary
AtoiTable == ("0" :> 0) @@ ("1" :> 1) @@ ("2" :> 2) @@ ("3" :> 3)
AtoiOk(fld) == fld.kind = "text" /\ fld.text \in DOMAIN AtoiTable
Atoi(fld) == AtoiTable[fld.text]

\* time.Parse(time.RFC3339, record[0]) succeeds
ParseOk(fld) == fld.kind = "time"

RECURSIVE ChainFromSkipping(_, _)
ChainFromSkipping(record, j) ==
    IF j > Len(record) THEN <<>>
    ELSE IF record[j].kind = "text" /\ record[j].text = ""
         THEN ChainFromSkipping(record, j + 1)
    ELSE <<record[j].text>> \o ChainFromSkipping(record, j + 1)

\* for j := 3; j < len(record); j++ { if record[j] == "" { break } ... }:
\* the task names walked, from field j on
RECURSIVE ChainFrom(_, _)
ChainFrom(record, j) ==
    IF j > Len(record) THEN <<>>
    ELSE IF record[j].kind = "text" /\ record[j].text = "" THEN <<>>
    ELSE <<record[j].text>> \o ChainFrom(record, j + 1)

\* the index (from 1) of the first title field read: record[3] in the source
FirstTitleField == 4

\* the reason a record is skipped, "" when it is not
SkipReason(record) ==
    IF Len(record) < 3 THEN "too few fields"
    ELSE IF ~ParseOk(record[1]) THEN "invalid start time"
    ELSE IF ~AtoiOk(record[3]) THEN "invalid duration"
    ELSE ""

\* duration := time.Duration(durationSeconds) * time.Second
DurationOf(record) == Atoi(record[3]) * NanosPerSecond

\* dateStr := startTime.Format("2006-01-02")
DateOf(record) == LocalDate(ParseRFC3339(record[1]), record[1].off)

\* what the loop body reads off one record
ParseRecord(record) ==
    IF SkipReason(record) # ""
    THEN [skip |-> SkipReason(record), start |-> 0, off |-> 0, date |-> 0,
          duration |-> 0, chain |-> <<>>]
    ELSE [skip |-> "", start |-> ParseRFC3339(record[1]), off |-> record[1].off,
          date |-> DateOf(record), duration |-> DurationOf(record),
          chain |-> ChainFrom(record, FirstTitleField)]

\* &TaskNode{Name: taskName, Children: ...}
NewNode == [Duration |-> 0, TotalTime |-> 0]

\* current[taskName].Duration += duration; current[taskName].TotalTime += duration
AddDurationAssigns(node, d) == [Duration |-> d, TotalTime |-> d]

AddDurationTotalOnly(node, d) ==
    [Duration |-> node.Duration, TotalTime |-> node.TotalTime + d]

AddDuration(node, d) ==
    [Duration |-> node.Duration + d, TotalTime |-> node.TotalTime + d]

EmptyForest == [dates |-> {}, nodes |-> <<>>]

\* the nodes a chain walks: one per non-empty prefix, under its date
PathKeys(date, chain) == {<<date, SubSeq(chain, 1, k)>> : k \in 1..Len(chain)}

\* the loop body for one record: dailyTasks afterwards.  A node is named by
\* its date and the path of task names from its root.
FoldRecord(forest, record) ==
    LET p == ParseRecord(record)
        keys == PathKeys(p.date, p.chain)
    IN  IF p.skip # "" THEN forest
        ELSE [dates |-> forest.dates \cup {p.date},
              nodes |-> [k \in (DOMAIN forest.nodes) \cup keys |->
                  LET old == IF k \in DOMAIN forest.nodes
                             THEN forest.nodes[k] ELSE NewNode
                  IN  IF k \in keys THEN AddDuration(old, p.duration) ELSE old]]

\* for i, record := range records { if i == 0 { continue } ... }, up to record n
RECURSIVE FoldRecords(_, _)
FoldRecords(records, n) ==
    IF n <= 1 THEN EmptyForest
    ELSE FoldRecord(FoldRecords(records, n - 1), records[n])

\* generateSummary's dailyTasks for a file
generateSummary(records) == FoldRecords(records, Len(records))

\* fmt.Fprintf(os.Stderr, "Skipping ... on line %d: ...", i+1, ...): one line
\* for every record skipped, in file order
RECURSIVE DiagnosticsUpTo(_, _)
DiagnosticsUpTo(records, n) ==
    IF n <= 1 THEN <<>>
    ELSE DiagnosticsUpTo(records, n - 1)
            \o (IF SkipReason(records[n]) # ""
                THEN <<[line |-> n, reason |-> SkipReason(records[n])]>>
                ELSE <<>>)

Diagnostics(records) == DiagnosticsUpTo(records, Len(records))

----------------------------------------------------------------------------
(* generateSummary: the report, part_002:256-307 *)

\* a hundredth of an hour, in seconds (36), scaled down
CentiHourSeconds == 1

\* fmt.Printf("%.2f hs", d.Hours()): d in hundredths of an hour, rounded
Hours2(d) ==
    (2 * d + CentiHourSeconds * NanosPerSecond)
        \div (2 * CentiHourSeconds * NanosPerSecond)

\* byte order of the task names of the vocabulary, as sort.Strings compares them
NameRank == ("2" :> 1) @@ ("A" :> 2) @@ ("B" :> 3) @@ ("C" :> 4)

\* sort.Strings(taskNames)
RECURSIVE SortStrings(_)
SortStrings(names) ==
    IF names = {} THEN <<>>
    ELSE LET m == CHOOSE x \in names : \A y \in names : NameRank[x] <= NameRank[y]
         IN  <<m>> \o SortStrings(names \ {m})

\* sort.Strings(dates): dates are spelled 2006-01-02, so by day
RECURSIVE SortDates(_)
SortDates(ds) ==
    IF ds = {} THEN <<>>
    ELSE LET m == CHOOSE x \in ds : \A y \in ds : x <= y
         IN  <<m>> \o SortDates(ds \ {m})

\* for name := range tasks: the names in the Children map of the node at
\* path (the roots of the date for the empty path)
ChildNames(forest, date, path) ==
    {k[2][Len(path) + 1] : k \in
        {c \in DOMAIN forest.nodes :
            /\ c[1] = date
            /\ Len(c[2]) = Len(path) + 1
            /\ SubSeq(c[2], 1, Len(path)) = path}}

\* one printed line; date and path say which node it is printed for
TaskLine(date, path, indent, value) ==
    [kind |-> "task", date |-> date, path |-> path, indent |-> indent,
     name |-> path[Len(path)], value |-> value]

\* printSubtasks(tasks, indent), part_002:292-307
RECURSIVE printSubtasks(_, _, _, _)
RECURSIVE PrintSubtasksLoop(_, _, _, _, _)
printSubtasks(forest, date, path, indent) ==
    PrintSubtasksLoop(forest, date, path, indent,
                      SortStrings(ChildNames(forest, date, path)))

\* for _, taskName := range taskNames { Printf(... task.Duration.Hours()); printSubtasks }
PrintSubtasksLoop(forest, date, path, indent, names) ==
    IF names = <<>> THEN <<>>
    ELSE LET child == Append(path, Head(names))
         IN  <<TaskLine(date, child, indent,
                        Hours2(forest.nodes[<<date, child>>].Duration))>>
                \o printSubtasks(forest, date, child, indent + 2)
                \o PrintSubtasksLoop(forest, date, path, indent, Tail(names))

\* for _, taskName := range taskNames { Printf(... task.TotalTime.Hours());
\* printSubtasks(task.Children, 4) }
RECURSIVE PrintRoots(_, _, _)
PrintRoots(forest, date, names) ==
    IF names = <<>> THEN <<>>
    ELSE <<TaskLine(date, <<Head(names)>>, 2,
                    Hours2(forest.nodes[<<date, <<Head(names)>>>>].TotalTime))>>
            \o printSubtasks(forest, date, <<Head(names)>>, 4)
            \o PrintRoots(forest, date, Tail(names))

\* totalDayHours += tasks[taskName].TotalTime.Hours()
RECURSIVE TotalDay(_, _, _)
TotalDay(forest, date, names) ==
    IF names = <<>> THEN 0
    ELSE forest.nodes[<<date, <<Head(names)>>>>].TotalTime
            + TotalDay(forest, date, Tail(names))

OtherLine(kind, date, value) ==
    [kind |-> kind, date |-> date, path |-> <<>>, indent |-> 0, name |-> "",
     value |-> value]

\* for _, date := range dates { ... }: "Date:", "Total:", the tasks, a blank line
RECURSIVE PrintDates(_, _)
PrintDates(forest, dates) ==
    IF dates = <<>> THEN <<>>
    ELSE LET d == Head(dates)
             roots == SortStrings(ChildNames(forest, d, <<>>))
         IN  <<OtherLine("date", d, 0),
               OtherLine("total", d, Hours2(TotalDay(forest, d, roots)))>>
                \o PrintRoots(forest, d, roots)
                \o <<OtherLine("blank", d, 0)>>
                \o PrintDates(forest, Tail(dates))

\* the report generateSummary prints for dailyTasks
Render(forest) == PrintDates(forest, SortDates(forest.dates))

----------------------------------------------------------------------------
(* The interactive session before the log command runs *)

NoSession ==
    /\ mTitles = <<>>
    /\ running = FALSE
    /\ quitting = FALSE
    /\ cmd = "nil"
    /\ tickPending = FALSE
    /\ now = 0
    /\ tickDue = 0
    /\ msg = "none"
    /\ ticked = 0

----------------------------------------------------------------------------
(* The log command run again and again on one file, and the summary        *)
(* command run on the file in between.                                     *)

\* the number of sessions logged to the file
MaxAppends == 2

\* time.Now() when a session starts: a second and a half after midnight
SpecStarts == {NanosPerSecond + 1}
\* m.elapsed when Ctrl+C arrives: a second, or two days
SpecElapsed == {NanosPerSecond, 2 * DayNanos}
SpecOffsets == {0}

Init ==
    /\ file = <<>>
    /\ synced = <<>>
    /\ ret = "none"
    /\ written = <<>>
    /\ startTime = 0
    /\ elapsed = 0
    /\ loc = 0
    /\ currentStart = 0
    /\ segs = <<>>
    /\ pc = "idle"
    /\ dailyTasks = EmptyForest
    /\ parsed = <<>>
    /\ report = <<>>
    /\ diags = <<>>
    /\ NoSession

\* talogo log TITLE {SUBTITLES}, stopped by Ctrl+C: Update calls m.logToCSV()
LogSession(titles, st, el, off, fault) ==
    /\ Len(written) < MaxAppends
    /\ LET r == logToCSV(file, titles, st, el, off, fault)
       IN  /\ file' = r.file
           /\ synced' = IF r.didSync THEN r.atSync ELSE synced
           /\ ret' = r.ret
           /\ written' = Append(written,
                    [titles |-> titles, startTime |-> st, endTime |-> st + el,
                     loc |-> off, before |-> file, rows |-> r.rows,
                     ret |-> r.ret, fault |-> fault, at |-> st + el])
    /\ startTime' = st
    /\ elapsed' = el
    /\ loc' = off
    /\ segs' = Segments(st, st + el, off)
    /\ currentStart' = segs'[Len(segs')].start
    /\ pc' = "done"
    /\ dailyTasks' = EmptyForest
    /\ parsed' = <<>>
    /\ report' = <<>>
    /\ diags' = <<>>
    /\ UNCHANGED uiVars

\* talogo summary: generateSummary(logFile)
Summary ==
    /\ dailyTasks' = generateSummary(file)
    /\ parsed' = [i \in 1..(IF Len(file) > 1 THEN Len(file) - 1 ELSE 0) |->
                    ParseRecord(file[i + 1])]
    /\ report' = Render(dailyTasks')
    /\ diags' = Diagnostics(file)
    /\ UNCHANGED <<file, synced, ret, written, startTime, elapsed, loc,
                   currentStart, segs, pc>>
    /\ UNCHANGED uiVars

Next ==
    \/ \E titles \in Chains, st \in SpecStarts, el \in SpecElapsed,
          off \in SpecOffsets, fault \in Faults :
            LogSession(titles, st, el, off, fault)
    \/ Summary

Spec == Init /\ [][Next]_vars

----------------------------------------------------------------------------
(* Properties of the log file under Spec *)

\* the title columns the file's header declares
HeaderTitles == titleCount(file[1])

\* the calls that put records into the file
Logged == {i \in 1..Len(written) : written[i].rows > 0}

Max(S) == CHOOSE x \in S : \A y \in S : y <= x

\* C2: every data row of the file has exactly 2 + N fields, N being the
\* number of title columns its header declares.
C2_RowWidthMatchesHeader ==
    \A i \in 2..Len(file) : Len(file[i]) = 2 + HeaderTitles

\* C3: the header's title-column count equals the longest title chain of
\* any session written to the file.
C3_HeaderIsMaxChain ==
    Logged # {} => HeaderTitles = Max({Len(written[i].titles) : i \in Logged})

\* C8: from one append to the next, the number of title columns the header
\* declares never decreases (and a header, once there, stays).
C8_HeaderWidthNeverDecreases ==
    [][Len(file) > 0 =>
          Len(file') > 0 /\ titleCount(file'[1]) >= titleCount(file[1])]_vars

\* a second session with a shorter chain than the header declares was appended
C8_Witness ==
    /\ Len(written) = 2
    /\ Logged = {1, 2}
    /\ Len(written[2].titles) < HeaderTitles
    /\ Len(file) > Len(written[2].before)

\* C7: when logToCSV returns nil, every record of the call (the header
\* included, if written) was in the file when file.Sync ran.
C7_FlushedBeforeSync ==
    Len(written) > 0 =>
        LET w == written[Len(written)]
        IN  w.ret = "nil" =>
                synced = w.before \o RowsOfCall(w.before, w.titles, w.startTime,
                                                w.endTime - w.startTime, w.loc)

\* generateSummary has read the file as it is now
SummaryRan == Len(file) > 1 /\ Len(parsed) = Len(file) - 1

\* the data row (counted from 1 after the header) that holds the first
\* segment of call i
FirstRowOf(i) ==
    Len(written[i].before) - (IF Len(written[i].before) = 0 THEN 0 ELSE 1) + 1

\* C14: when opening the file, flushing the records or syncing fails,
\* logToCSV returns an error; it never returns success when the rows of the
\* call were not written.
C14_FailureReturnsError ==
    \A i \in 1..Len(written) :
        /\ written[i].fault # "none" => written[i].ret # "nil"
        /\ written[i].ret = "nil" => written[i].rows > 0

\* the file as call i of logToCSV left it
FileAfter(i) == IF i < Len(written) THEN written[i + 1].before ELSE file

IsHeaderRow(r) == r[1] = TextField("start_time")

\* C19: a call of logToCSV only adds rows at the end of the file; the header
\* is written once, as the first row, by the call that finds the file empty;
\* every data row carries the whole title chain in order, padded with empty
\* fields to the larger of the chain's length and the number of title columns
\* of the header already in the file.
C19_AppendOnlyWholeChain ==
    \A i \in 1..Len(written) :
        LET w == written[i]
            old == Len(w.before)
            after == FileAfter(i)
            n == Len(w.titles)
            existing == IF old = 0 THEN 0 ELSE Len(w.before[1]) - 2
            width == IF n > existing THEN n ELSE existing
        IN  /\ Len(after) = old + w.rows
            /\ SubSeq(after, 1, old) = w.before
            /\ \A j \in (old + 1)..Len(after) :
                  IF IsHeaderRow(after[j])
                  THEN j = 1
                  ELSE /\ j > 1
                       /\ Len(after[j]) = 2 + width
                       /\ \A k \in 1..n : after[j][2 + k] = TextField(w.titles[k])
                       /\ \A k \in (n + 1)..width : after[j][2 + k] = TextField("")
            /\ (old = 0 /\ w.rows > 0) => IsHeaderRow(after[1])

\* a session of several days appended to a file whose header has more title
\* columns than its chain has titles
C19_Witness ==
    /\ Len(written) = 2
    /\ written[1].rows > 0 /\ written[2].rows > 0
    /\ Len(written[2].titles) < Len(written[1].titles)
    /\ written[2].rows >= 2

\* C4: a session within one calendar day, written by logToCSV and read
\* back by generateSummary, is not skipped and yields the start, the end
\* and the title chain that were written (timestamps as RFC3339 spells
\* them, to the second).
C4_RoundTrip ==
    SummaryRan =>
        \A i \in Logged :
            LET w == written[i]
                p == parsed[FirstRowOf(i)]
            IN  LocalDate(w.startTime, w.loc) = LocalDate(w.endTime, w.loc) =>
                    /\ p.skip = ""
                    /\ p.start = ParseRFC3339(FormatRFC3339(w.startTime, w.loc))
                    /\ p.start + p.duration
                           = ParseRFC3339(FormatRFC3339(w.endTime, w.loc))
                    /\ p.chain = w.titles

----------------------------------------------------------------------------
(* The day-split loop of logToCSV, one iteration at a time, for every      *)
(* start, elapsed time and location within the bounds.                     *)

SplitInit ==
    /\ file = <<>>
    /\ synced = <<>>
    /\ ret = "none"
    /\ written = <<>>
    /\ startTime \in StartTimes
    /\ elapsed \in Elapsed
    /\ loc \in Offsets
    /\ currentStart = startTime
    /\ segs = <<>>
    /\ pc = "loop"
    /\ dailyTasks = EmptyForest
    /\ parsed = <<>>
    /\ report = <<>>
    /\ diags = <<>>
    /\ NoSession

\* endTime := m.startTime.Add(m.elapsed)
endTime == startTime + elapsed

\* one pass through the body of the for loop, log.go:160-191
SplitIteration ==
    /\ pc = "loop"
    /\ segs' = Append(segs, Segment(currentStart, endTime, loc))
    /\ IF LoopBreaks(currentStart, endTime, loc)
       THEN pc' = "done" /\ currentStart' = currentStart
       ELSE pc' = "loop" /\ currentStart' = NextStart(currentStart, loc)
    /\ UNCHANGED <<file, synced, ret, written, startTime, elapsed, loc,
                   dailyTasks, parsed, report, diags>>
    /\ UNCHANGED uiVars

SplitNext == SplitIteration

SplitSpec == SplitInit /\ [][SplitNext]_vars

\* the segments that hold instant t
Holding(t) == {i \in 1..Len(segs) : segs[i].start <= t /\ t <= segs[i].end}

\* C1 as stated: the segments run from start to end and each segment
\* starts at the instant the one before it ends.
C1_NextStartEqualsPreviousEnd ==
    pc = "done" =>
        /\ segs[1].start = startTime
        /\ segs[Len(segs)].end = endTime
        /\ \A i \in 1..(Len(segs) - 1) : segs[i + 1].start = segs[i].end

\* C1 amended: the segments are closed intervals, the first starts at
\* start, the last ends at end, each next one starts one nanosecond after
\* the one before it ends, and every instant of [start, end] lies in
\* exactly one segment.
C1_SegmentsPartitionInterval ==
    pc = "done" =>
        /\ segs[1].start = startTime
        /\ segs[Len(segs)].end = endTime
        /\ \A i \in 1..Len(segs) : segs[i].start <= segs[i].end
        /\ \A i \in 1..(Len(segs) - 1) : segs[i + 1].start = segs[i].end + 1
        /\ \A t \in startTime..endTime : Cardinality(Holding(t)) = 1
        /\ \A i \in 1..Len(segs) :
              startTime <= segs[i].start /\ segs[i].end <= endTime

\* a session over three calendar days or more has been split
C1_Witness == pc = "done" /\ Len(segs) >= 3

\* C9: every segment emitted starts and ends on the same calendar day of
\* the session's location, and so do the two timestamps written for it.
C9_SegmentWithinOneDay ==
    \A i \in 1..Len(segs) :
        /\ LocalDate(segs[i].start, loc) = LocalDate(segs[i].end, loc)
        /\ LocalDate(ParseRFC3339(FormatRFC3339(segs[i].start, loc)), loc)
              = LocalDate(ParseRFC3339(FormatRFC3339(segs[i].end, loc)), loc)

\* a session crossing midnight away from UTC has been split
C9_Witness == pc = "done" /\ Len(segs) >= 2 /\ loc # 0

SameDay == LocalDate(startTime, loc) = LocalDate(endTime, loc)

\* C10: when start and end are on the same calendar day the loop emits one
\* segment, from start to end, and stops.
C10_SameDayOneSegment ==
    SameDay =>
        \/ pc = "loop" /\ segs = <<>>
        \/ pc = "done" /\ segs = <<[start |-> startTime, end |-> endTime]>>

\* a session of some length within one day, away from UTC, has been emitted
C10_Witness == pc = "done" /\ SameDay /\ elapsed > 0 /\ loc # 0

\* the loop body runs again as long as the loop has not been left
SplitFairSpec == SplitSpec /\ WF_vars(SplitIteration)

\* the calendar days from the start's date to the end's date, inclusive
DaysSpanned == LocalDate(endTime, loc) - LocalDate(startTime, loc) + 1

\* C18: the day-split loop terminates; it stops exactly when the segment it
\* has emitted ends at the end time; and it emits as many rows as there are
\* calendar days from the start's date to the end's date, inclusive.
C18_LoopTerminatesOneRowPerDay ==
    /\ <>(pc = "done")
    /\ [](pc = "done" =>
            /\ segs[Len(segs)].end = endTime
            /\ Len(segs) = DaysSpanned)
    /\ []((pc = "loop" /\ segs # <<>>) =>
            /\ segs[Len(segs)].end # endTime
            /\ Len(segs) < DaysSpanned)

\* a session over several days that ends at a midnight: the last row is the
\* instant of that midnight
C18_Witness ==
    /\ pc = "done"
    /\ Len(segs) >= 3
    /\ endTime = Midnight(LocalDate(endTime, loc), loc)
    /\ segs[Len(segs)].start = segs[Len(segs)].end

----------------------------------------------------------------------------
(* The summary command on a log file in the format generateSummary reads:  *)
(* start_time, end_time, duration_seconds, title1, ... (the header of      *)
(* part_001:138), with rows edited by hand among them.                     *)

\* the data rows of a file summarised
MaxRows == 2

\* header := []string{"start_time", "end_time", "duration_seconds"}, then the titles
DurationHeader(n) ==
    <<TextField("start_time"), TextField("end_time"), TextField("duration_seconds")>>
        \o [i \in 1..n |-> TextField(TitleNames[i])]

\* start, end and duration of the well-formed rows: one or two seconds on
\* day 0 at UTC, one second on day 1 an hour east of UTC
RowTimes ==
    {[sec |-> 1, off |-> 0, dur |-> "1"],
     [sec |-> 1, off |-> 0, dur |-> "2"],
     [sec |-> SecondsPerDay - 1, off |-> 1, dur |-> "1"]}

\* the title fields of a row: chains, padded chains, chains with a gap
RowTitles ==
    {<<>>, <<"A">>, <<"B">>, <<"A", "B">>, <<"A", "C">>, <<"A", "B", "C">>,
     <<"A", "">>, <<"A", "", "B">>, <<"", "B">>}

TextFields(ss) == [i \in 1..Len(ss) |-> TextField(ss[i])]

WellFormedRows ==
    {<<TimeField(rt.sec * NanosPerSecond, rt.off),
       TimeField((rt.sec + AtoiTable[rt.dur]) * NanosPerSecond, rt.off),
       TextField(rt.dur)>> \o TextFields(ts) : rt \in RowTimes, ts \in RowTitles}

\* too few fields; a start that is no timestamp; a duration that is no integer
MalformedRows ==
    {<<TimeField(NanosPerSecond, 0), TimeField(2 * NanosPerSecond, 0)>>,
     <<TextField("A"), TimeField(2 * NanosPerSecond, 0), TextField("1"),
       TextField("A")>>,
     <<TimeField(NanosPerSecond, 0), TimeField(2 * NanosPerSecond, 0),
       TextField("A"), TextField("B")>>}

\* a row whose end_time is no timestamp, its start and duration being valid
BadEndRows ==
    {<<TimeField(NanosPerSecond, 0), TextField("A"), TextField("1"),
       TextField("A")>>}

SummaryRows == WellFormedRows \cup MalformedRows \cup BadEndRows

\* the files of n data rows under a header
SummaryFiles(n) == {<<DurationHeader(3)>> \o rows : rows \in [1..n -> SummaryRows]}

SummaryInit ==
    /\ \/ file = <<>>
       \/ \E n \in 0..MaxRows : file \in SummaryFiles(n)
    /\ synced = file
    /\ ret = "none"
    /\ written = <<>>
    /\ startTime = 0
    /\ elapsed = 0
    /\ loc = 0
    /\ currentStart = 0
    /\ segs = <<>>
    /\ pc = "idle"
    /\ dailyTasks = EmptyForest
    /\ parsed = <<>>
    /\ report = <<>>
    /\ diags = <<>>
    /\ NoSession

SummaryNext == Summary

SummarySpec == SummaryInit /\ [][SummaryNext]_vars

\* the node of a forest under key k, as a missing map entry reads
NodeAt(forest, k) == IF k \in DOMAIN forest.nodes THEN forest.nodes[k] ELSE NewNode

\* C5: folding a session into the forest adds its duration to the own
\* duration (Duration) of the deepest node of its chain only, and to the
\* total duration (TotalTime) of every node of the chain.
C5_OwnDurationAtDeepestOnly ==
    SummaryRan =>
        LET n == Len(file)
            before == FoldRecords(file, n - 1)
            p == parsed[n - 1]
        IN  p.skip = "" =>
                \A k \in 1..Len(p.chain) :
                    LET key == <<p.date, SubSeq(p.chain, 1, k)>>
                        old == NodeAt(before, key)
                        new == NodeAt(dailyTasks, key)
                    IN  /\ new.TotalTime = old.TotalTime + p.duration
                        /\ new.Duration = old.Duration
                              + (IF k = Len(p.chain) THEN p.duration ELSE 0)

\* the children of the node under key k
ChildKeys(forest, k) ==
    {c \in DOMAIN forest.nodes :
        /\ c[1] = k[1]
        /\ Len(c[2]) = Len(k[2]) + 1
        /\ SubSeq(c[2], 1, Len(k[2])) = k[2]}

RECURSIVE SumTotalTime(_, _)
SumTotalTime(forest, ks) ==
    IF ks = {} THEN 0
    ELSE LET k == CHOOSE x \in ks : TRUE
         IN  forest.nodes[k].TotalTime + SumTotalTime(forest, ks \ {k})

\* C6: after aggregation every node's total duration is its own duration
\* plus the total durations of its children.
C6_TotalIsOwnPlusChildren ==
    SummaryRan =>
        \A k \in DOMAIN dailyTasks.nodes :
            dailyTasks.nodes[k].TotalTime
                = dailyTasks.nodes[k].Duration
                    + SumTotalTime(dailyTasks, ChildKeys(dailyTasks, k))

\* the durations of the valid sessions of a date whose chain passes through path
RECURSIVE SubtreeTotal(_, _, _, _)
SubtreeTotal(ps, n, date, path) ==
    IF n = 0 THEN 0
    ELSE SubtreeTotal(ps, n - 1, date, path)
            + (IF /\ ps[n].skip = ""
                  /\ ps[n].date = date
                  /\ Len(ps[n].chain) >= Len(path)
                  /\ SubSeq(ps[n].chain, 1, Len(path)) = path
               THEN ps[n].duration ELSE 0)

TaskLines == {i \in 1..Len(report) : report[i].kind = "task"}

\* C11: the number the report shows for a node, at any depth, is the total
\* time of the node's whole subtree: the durations of the valid sessions of
\* that date whose chain passes through the node; and every node is shown.
C11_DisplayedIsSubtreeTotal ==
    SummaryRan =>
        /\ \A i \in TaskLines :
              report[i].value
                  = Hours2(SubtreeTotal(parsed, Len(parsed), report[i].date,
                                        report[i].path))
        /\ \A k \in DOMAIN dailyTasks.nodes :
              \E i \in TaskLines :
                  report[i].date = k[1] /\ report[i].path = k[2]

\* a report showing a subtask that has a subtask of its own, both with time
C11_Witness ==
    /\ SummaryRan
    /\ \E i, j \in TaskLines :
          /\ Len(report[i].path) = 2
          /\ Len(report[j].path) = 3
          /\ report[i].date = report[j].date
          /\ SubSeq(report[j].path, 1, 2) = report[i].path
          /\ report[j].value > 0
          /\ report[i].value > report[j].value

\* the orders in which n data rows can stand in the file
RowOrders(n) == {f \in [1..n -> 1..n] : \A i, j \in 1..n : f[i] = f[j] => i = j}

\* the file with its data rows in the order f, under the same header
Reordered(records, f) ==
    <<records[1]>> \o [i \in 1..(Len(records) - 1) |-> records[1 + f[i]]]

\* C12: aggregating the same data rows in any order yields the same forest
\* and the same report.
C12_RowOrderIrrelevant ==
    SummaryRan =>
        \A f \in RowOrders(Len(file) - 1) :
            /\ generateSummary(Reordered(file, f)) = dailyTasks
            /\ Render(generateSummary(Reordered(file, f))) = report

\* two different valid sessions of one date under the same root task, with
\* different durations, and tasks of two names in the report
C12_Witness ==
    /\ SummaryRan
    /\ Len(parsed) >= 2
    /\ parsed[1].skip = "" /\ parsed[2].skip = ""
    /\ parsed[1].date = parsed[2].date
    /\ parsed[1].duration # parsed[2].duration
    /\ Len(parsed[1].chain) = 1 /\ Len(parsed[2].chain) = 2
    /\ parsed[1].chain[1] = parsed[2].chain[1]
    /\ parsed[2].chain[2] # parsed[1].chain[1]

\* a data row with too few fields, an unparsable timestamp, or a duration
\* that is no integer
MalformedRow(record) ==
    \/ Len(record) < 3
    \/ /\ Len(record) >= 3
       /\ \/ record[1].kind # "time"
          \/ record[2].kind # "time"
          \/ record[3].kind # "text"
          \/ record[3].text \notin DOMAIN AtoiTable

\* the file without its malformed data rows
WithoutMalformed(records) ==
    <<records[1]>> \o SelectSeq(Tail(records), LAMBDA r : ~MalformedRow(r))

\* the diagnostics printed for line n of the file
DiagnosticsFor(n) == {i \in 1..Len(diags) : diags[i].line = n}

\* C13: a data row with too few fields, an unparsable timestamp or a
\* non-integer duration is skipped with exactly one diagnostic, and the other
\* rows are aggregated as if it were absent; a valid row gets no diagnostic.
C13_MalformedRowSkippedWithOneDiagnostic ==
    SummaryRan =>
        /\ \A n \in 2..Len(file) :
              Cardinality(DiagnosticsFor(n)) = (IF MalformedRow(file[n]) THEN 1 ELSE 0)
        /\ dailyTasks = generateSummary(WithoutMalformed(file))

\* the number of title fields of a record before its first empty one
LeadingTitles(record) ==
    LET ts == SubSeq(record, FirstTitleField, Len(record))
        empty == {i \in 1..Len(ts) : ts[i] = TextField("")}
    IN  IF empty = {} THEN Len(ts)
        ELSE (CHOOSE i \in empty : \A j \in empty : i <= j) - 1

\* the keys of the nodes on the chain of the first k title fields
PrefixKeys(date, record, k) ==
    {<<date, [i \in 1..n |-> record[FirstTitleField - 1 + i].text]>> : n \in 1..k}

\* C15: the first empty title field of a row ends its chain: folding the row
\* touches exactly the nodes of the titles before it, and no node is created
\* or changed for a title after it.
C15_FirstEmptyTitleEndsChain ==
    SummaryRan =>
        LET n == Len(file)
            before == FoldRecords(file, n - 1)
            p == parsed[n - 1]
            keys == PrefixKeys(p.date, file[n], LeadingTitles(file[n]))
        IN  p.skip = "" =>
                /\ DOMAIN dailyTasks.nodes = DOMAIN before.nodes \cup keys
                /\ \A k \in DOMAIN dailyTasks.nodes :
                      IF k \in keys
                      THEN dailyTasks.nodes[k].TotalTime
                              = NodeAt(before, k).TotalTime + p.duration
                      ELSE dailyTasks.nodes[k] = before.nodes[k]

\* the last row folded has a title, an empty field, then another title
C15_Witness ==
    /\ SummaryRan
    /\ parsed[Len(parsed)].skip = ""
    /\ LET r == file[Len(file)]
       IN  /\ Len(r) >= FirstTitleField + 2
           /\ r[FirstTitleField].text # ""
           /\ r[FirstTitleField + 1].text = ""
           /\ r[FirstTitleField + 2].text # ""

----------------------------------------------------------------------------
(* The interactive session: model.Init, model.Update, model.View under
   bubbletea's event loop, log.go:29-97 *)

\* seconds the clock runs on after the session starts
MaxUISeconds == 2

\* tea.Tick(time.Second, ...): the delay of a tick
TickNanos == NanosPerSecond

ElapsedRefreshedAtStop(m_elapsed, nw, st) == nw - st

\* endTime := m.startTime.Add(m.elapsed): the elapsed time logToCSV records
ElapsedAtStop(m_elapsed, nw, st) == m_elapsed

\* titles: args, the arguments of talogo log
UITitles == {<<"A">>, <<"A", "B">>}

\* what goes wrong in the append of a session: nothing, or os.OpenFile fails
UIFaults == {"none", "open"}

\* model.View
View ==
    IF quitting THEN "Timer stopped. Data saved to logFile"
    ELSE IF ~running THEN "Timer stopped."
    ELSE "Timer"

\* logCmd.Run builds the model and tea.NewProgram(m).Run() calls m.Init
UIInit ==
    /\ file = <<>>
    /\ synced = <<>>
    /\ ret = "none"
    /\ written = <<>>
    /\ startTime \in SpecStarts
    /\ now = startTime
    /\ elapsed = 0
    /\ loc \in SpecOffsets
    /\ currentStart = 0
    /\ segs = <<>>
    /\ pc = "ui"
    /\ dailyTasks = EmptyForest
    /\ parsed = <<>>
    /\ report = <<>>
    /\ diags = <<>>
    /\ mTitles \in UITitles
    /\ running = TRUE
    /\ quitting = FALSE
    /\ cmd = "tick"
    /\ tickPending = TRUE
    /\ tickDue = now + TickNanos
    /\ msg = "none"
    /\ ticked = 0

\* the event loop runs until it receives the QuitMsg
Handling == pc \in {"ui", "quit sent"}

\* time passes
ClockAdvance ==
    /\ Handling
    /\ now < startTime + MaxUISeconds * NanosPerSecond
    /\ now' = now + 1
    /\ msg' = "none"
    /\ UNCHANGED <<file, synced, ret, written, startTime, elapsed, loc,
                   currentStart, segs, pc, dailyTasks, parsed, report, diags,
                   mTitles, running, quitting, cmd, tickPending, tickDue, ticked>>

\* Update(tickMsg)
Tick ==
    /\ Handling
    /\ tickPending
    /\ now >= tickDue
    /\ msg' = "tick"
    /\ IF running
       THEN /\ elapsed' = now - startTime
            /\ ticked' = now - startTime
            /\ cmd' = "tick"
            /\ tickPending' = TRUE
            /\ tickDue' = now + TickNanos
       ELSE /\ cmd' = "nil"
            /\ tickPending' = FALSE
            /\ UNCHANGED <<elapsed, ticked, tickDue>>
    /\ UNCHANGED <<file, synced, ret, written, startTime, loc, currentStart,
                   segs, pc, dailyTasks, parsed, report, diags, mTitles,
                   running, quitting, now>>

\* Update(tea.KeyMsg) with msg.Type == tea.KeyCtrlC; tea.Quit is a command:
\* its QuitMsg reaches the event loop later
CtrlC(fault) ==
    /\ Handling
    /\ Len(written) < MaxAppends
    /\ msg' = "ctrl+c"
    /\ running' = FALSE
    /\ quitting' = TRUE
    /\ LET el == ElapsedAtStop(elapsed, now, startTime)
           r == logToCSV(file, mTitles, startTime, el, loc, fault)
       IN  /\ file' = r.file
           /\ synced' = IF r.didSync THEN r.atSync ELSE synced
           /\ ret' = r.ret
           /\ written' = Append(written,
                    [titles |-> mTitles, startTime |-> startTime,
                     endTime |-> startTime + el, loc |-> loc, before |-> file,
                     rows |-> r.rows, ret |-> r.ret, fault |-> fault,
                     at |-> now])
           /\ segs' = Segments(startTime, startTime + el, loc)
           /\ currentStart' = segs'[Len(segs')].start
    /\ cmd' = "quit"
    /\ pc' = "quit sent"
    /\ UNCHANGED <<startTime, elapsed, loc, dailyTasks, parsed, report, diags,
                   mTitles, tickPending, now, tickDue, ticked>>

\* Update(tea.KeyMsg) with any other key
OtherKey ==
    /\ Handling
    /\ msg' = "key"
    /\ cmd' = "nil"
    /\ UNCHANGED <<file, synced, ret, written, startTime, elapsed, loc,
                   currentStart, segs, pc, dailyTasks, parsed, report, diags,
                   mTitles, running, quitting, tickPending, now, tickDue, ticked>>

\* the event loop receives the QuitMsg and p.Run() returns
QuitMsg ==
    /\ pc = "quit sent"
    /\ pc' = "quit"
    /\ msg' = "none"
    /\ UNCHANGED <<file, synced, ret, written, startTime, elapsed, loc,
                   currentStart, segs, dailyTasks, parsed, report, diags,
                   mTitles, running, quitting, cmd, tickPending, now, tickDue,
                   ticked>>

UINext ==
    \/ ClockAdvance
    \/ Tick
    \/ \E fault \in UIFaults : CtrlC(fault)
    \/ OtherKey
    \/ QuitMsg

UISpec == UIInit /\ [][UINext]_vars

\* C16: logToCSV is invoked only by the Update that handles Ctrl+C, and at
\* most once per session; that Update sets running to false and quitting to
\* true and returns the quit command; a tick handled by a model that is not
\* running schedules no tick and leaves elapsed unchanged.
C16_LogOnlyOnCtrlCOnce ==
    [][/\ written' # written =>
            /\ msg' = "ctrl+c"
            /\ Len(written') = 1
            /\ ~running' /\ quitting' /\ cmd' = "quit"
       /\ (msg' = "tick" /\ ~running) =>
            /\ elapsed' = elapsed
            /\ cmd' # "tick"
            /\ ~tickPending']_vars

\* C17: when the append made on Ctrl+C fails, the session does not quit and
\* does not say the data was saved.
C17_FailedAppendKeepsSession ==
    (written # <<>> /\ written[Len(written)].ret # "nil") =>
        /\ pc = "ui"
        /\ ~quitting
        /\ View # "Timer stopped. Data saved to logFile"

\* C20: the end time logToCSV records is the start time plus the elapsed time
\* set by the last tick handled while running, 0 when there was none: Ctrl+C
\* does not refresh it; a session stopped before its first tick is written
\* as one row whose end is its start.
C20_EndIsStartPlusLastTick ==
    \A i \in 1..Len(written) :
        LET w == written[i]
        IN  /\ w.endTime = startTime + ticked
            /\ (w.rows > 0 /\ i = Len(written)) =>
                  file[Len(file)][2] = TimeField(startTime + ticked, loc)
            /\ (w.rows > 0 /\ i = Len(written) /\ ticked = 0) =>
                  /\ w.rows = Len(HeaderRows(w.before, w.titles)) + 1
                  /\ file[Len(file)][1] = file[Len(file)][2]

\* Ctrl+C arrives later than the last tick, after at least one tick
C20_Witness ==
    /\ written # <<>>
    /\ written[1].rows > 0
    /\ ticked > 0
    /\ written[1].at > startTime + ticked

====
